---- MODULE Spec2Model ----
(***************************************************************************)
(* Model of autotst/calculators/cantherm.py (class AutoTST_CanTherm):      *)
(* the atom and bond classifiers, the artifact writers with the job        *)
(* descriptor, and run / set_reactants_and_products around the engine.     *)
(***************************************************************************)
EXTENDS Integers, Sequences, FiniteSets, TLC

VARIABLES
    mol,            \* the structure handed to get_atoms / get_bonds
    ret,            \* outcome of the last classifier call
    reaction,       \* self.reaction as seen by the writers
    files,          \* names of the files present in self.scratch
    descriptor,     \* content of <label>.canth.py, or NoFile
    wf,             \* position of the write_files pass in progress
    rmg_reaction,   \* self.reaction.rmg_reaction
    jobList,        \* self.cantherm_job.jobList
    kinetics_job,   \* self.kinetics_job, or Unset
    molecule,       \* molecule attribute of the engine's species, by label
    last            \* outcome of the last run / set_reactants_and_products

classVars == <<mol, ret>>
fileVars  == <<reaction, files, descriptor, wf>>
runVars   == <<rmg_reaction, jobList, kinetics_job, molecule, last>>
vars      == <<mol, ret, reaction, files, descriptor, wf,
               rmg_reaction, jobList, kinetics_job, molecule, last>>

(***************************************************************************)
(* Bounds                                                                  *)
(***************************************************************************)
MaxBonds == 2
MaxMols  == 3
MaxJobs  == 2

(***************************************************************************)
(* Structures: atoms carry an element symbol; a bond joins two atoms, in   *)
(* either orientation (atom1, atom2), and has an order (1 single, 2        *)
(* double, 3 triple).  The structures drawn are chains of up to            *)
(* MaxBonds + 1 atoms, consecutive atoms bonded.                           *)
(***************************************************************************)
Elements == {"C", "H", "O", "N", "S"}
Orders   == {1, 2, 3}

Unbound  == "<unbound>"
EmptyDict == [k \in {} |-> 0]

Links == [order : Orders, flip : BOOLEAN]

ChainBonds(n, link) ==
    {[atom1 |-> IF link[i].flip THEN i + 1 ELSE i,
      atom2 |-> IF link[i].flip THEN i ELSE i + 1,
      order |-> link[i].order] : i \in 1..(n - 1)}

Chain(a, link) == [atoms |-> a, bonds |-> ChainBonds(Len(a), link)]

(***************************************************************************)
(* Dictionaries with the try: d[k] += 1 / except KeyError: d[k] = 1 idiom  *)
(***************************************************************************)
Incr(d, k) ==
    IF k \in DOMAIN d
    THEN [d EXCEPT ![k] = @ + 1]
    ELSE [x \in (DOMAIN d) \cup {k} |-> IF x = k THEN 1 ELSE d[x]]

(***************************************************************************)
(* get_atoms                                                               *)
(***************************************************************************)
\* the three independent ifs; atom_type keeps its previous value otherwise
AtomType(sym, prev) ==
    LET t1 == IF sym = "C" THEN "C" ELSE prev
        t2 == IF sym = "H" THEN "H" ELSE t1
        t3 == IF sym = "O" THEN "O" ELSE t2
    IN  t3

RECURSIVE AtomsLoop(_, _, _, _)
AtomsLoop(atoms, i, atom_type, atom_dict) ==
    IF i > Len(atoms)
    THEN [status |-> "ok", dict |-> atom_dict]
    ELSE LET t == AtomType(atoms[i], atom_type)
         IN  IF t = Unbound
             THEN [status |-> "NameError", dict |-> EmptyDict]
             ELSE AtomsLoop(atoms, i + 1, t, Incr(atom_dict, t))

get_atoms(m) == AtomsLoop(m.atoms, 1, Unbound, EmptyDict)

(***************************************************************************)
(* get_bonds                                                               *)
(***************************************************************************)
Incident(m, i) == {b \in m.bonds : b.atom1 = i \/ b.atom2 = i}

RECURSIVE SetToSeq(_)
SetToSeq(S) ==
    IF S = {} THEN <<>>
    ELSE LET x == CHOOSE y \in S : TRUE
         IN  <<x>> \o SetToSeq(S \ {x})

\* for atom in rmg_mol.atoms: for bond in atom.bonds.values(): append
RECURSIVE BondList(_, _)
BondList(m, i) ==
    IF i > Len(m.atoms) THEN <<>>
    ELSE SetToSeq(Incident(m, i)) \o BondList(m, i + 1)

Range(s) == {s[i] : i \in DOMAIN s}

Perms(S) ==
    {f \in [1..Cardinality(S) -> S] : \A x \in S : \E i \in DOMAIN f : f[i] = x}

\* a list that keeps every entry of bondList: no set() in between
IterationOrdersNoSet(bondList) == {bondList}

\* bonds = list(set(bondList)): each bond once, in an order the set decides
IterationOrders(bondList) == Perms(Range(bondList))

SingleLabel(s1, s2, prev) ==
    IF s1 = "C" /\ s2 = "C" THEN "C-C"
    ELSE IF s1 = "H" /\ s2 = "H" THEN "H-H"
    ELSE IF (s1 = "C" /\ s2 = "H") \/ (s1 = "H" /\ s2 = "C") THEN "C-H"
    ELSE IF s1 = "O" /\ s2 = "O" THEN "O-O"
    ELSE IF (s1 = "C" /\ s2 = "O") \/ (s1 = "O" /\ s2 = "C") THEN "C-O"
    ELSE IF (s1 = "H" /\ s2 = "O") \/ (s1 = "O" /\ s2 = "H") THEN "O-H"
    ELSE IF s1 = "N" /\ s2 = "N" THEN "N-N"
    ELSE IF (s1 = "C" /\ s2 = "N") \/ (s1 = "N" /\ s2 = "C") THEN "N-C"
    ELSE IF (s1 = "O" /\ s2 = "N") \/ (s1 = "N" /\ s2 = "O") THEN "N-O"
    ELSE IF (s1 = "H" /\ s2 = "N") \/ (s1 = "N" /\ s2 = "H") THEN "N-H"
    ELSE IF s1 = "S" /\ s2 = "S" THEN "S-S"
    ELSE IF (s1 = "H" /\ s2 = "S") \/ (s1 = "S" /\ s2 = "H") THEN "S-H"
    ELSE prev

DoubleLabel(s1, s2, prev) ==
    IF s1 = "C" /\ s2 = "C" THEN "C=C"
    ELSE IF s1 = "O" /\ s2 = "O" THEN "O=O"
    ELSE IF (s1 = "C" /\ s2 = "O") \/ (s1 = "O" /\ s2 = "C") THEN "C=O"
    ELSE IF s1 = "N" /\ s2 = "N" THEN "N=N"
    ELSE IF (s1 = "C" /\ s2 = "N") \/ (s1 = "N" /\ s2 = "C") THEN "N=C"
    ELSE IF (s1 = "O" /\ s2 = "N") \/ (s1 = "N" /\ s2 = "O") THEN "N=O"
    ELSE IF (s1 = "O" /\ s2 = "S") \/ (s1 = "S" /\ s2 = "O") THEN "S=O"
    ELSE prev

TripleLabel(s1, s2, prev) ==
    IF s1 = "C" /\ s2 = "C" THEN "C#C"
    ELSE IF s1 = "N" /\ s2 = "N" THEN "N#N"
    ELSE IF (s1 = "C" /\ s2 = "N") \/ (s1 = "N" /\ s2 = "C") THEN "N#C"
    ELSE prev

\* bond.isSingle() is called and answers for the bond's order
isSingle(b) == b.order = 1

\* "elif bond.isDouble:" tests the bound method itself, which is always true
isDoubleAttr(b) == TRUE

\* "elif bond.isTriple:" likewise tests the bound method
isTripleAttr(b) == TRUE

\* the if / elif chain of the loop body; bondType keeps its value otherwise
BondType(b, atoms, prev) ==
    LET s1 == atoms[b.atom1]
        s2 == atoms[b.atom2]
    IN  IF isSingle(b) THEN SingleLabel(s1, s2, prev)
        ELSE IF isDoubleAttr(b) THEN DoubleLabel(s1, s2, prev)
        ELSE IF isTripleAttr(b) THEN TripleLabel(s1, s2, prev)
        ELSE prev

RECURSIVE BondsLoop(_, _, _, _, _)
BondsLoop(bonds, atoms, i, bondType, bondDict) ==
    IF i > Len(bonds)
    THEN [status |-> "ok", dict |-> bondDict]
    ELSE LET t == BondType(bonds[i], atoms, bondType)
         IN  IF t = Unbound
             THEN [status |-> "NameError", dict |-> EmptyDict]
             ELSE BondsLoop(bonds, atoms, i + 1, t, Incr(bondDict, t))

\* get_bonds with the iteration order of list(set(bondList)) made explicit
get_bonds(m, bonds) == BondsLoop(bonds, m.atoms, 1, Unbound, EmptyDict)

BondOrders(m) == IterationOrders(BondList(m, 1))

NoCall == [op |-> "none", status |-> "none", dict |-> EmptyDict, order |-> <<>>]

CallGetAtoms ==
    /\ ret = NoCall
    /\ ret' = [op |-> "get_atoms", status |-> get_atoms(mol).status,
               dict |-> get_atoms(mol).dict, order |-> <<>>]
    /\ UNCHANGED <<mol, fileVars, runVars>>

CallGetBonds ==
    /\ ret = NoCall
    /\ \E bonds \in BondOrders(mol) :
          ret' = [op |-> "get_bonds", status |-> get_bonds(mol, bonds).status,
                  dict |-> get_bonds(mol, bonds).dict, order |-> bonds]
    /\ UNCHANGED <<mol, fileVars, runVars>>


(***************************************************************************)
(* Species identifiers and file names.  Text is a sequence of tokens.      *)
(***************************************************************************)
SmilesPool == {"O", "[H]O[H]", "O=C=S"}

Water == [atoms |-> <<"H", "O", "H">>,
          bonds |-> {[atom1 |-> 2, atom2 |-> 1, order |-> 1],
                     [atom1 |-> 2, atom2 |-> 3, order |-> 1]}]
Hydroxyl == [atoms |-> <<"O", "H">>,
             bonds |-> {[atom1 |-> 1, atom2 |-> 2, order |-> 1]}]
CarbonylSulfide == [atoms |-> <<"O", "C", "S">>,
                    bonds |-> {[atom1 |-> 1, atom2 |-> 2, order |-> 2],
                               [atom1 |-> 2, atom2 |-> 3, order |-> 2]}]

\* mol.rmg_molecule of the molecule whose smiles attribute is s
MolStruct(s) ==
    IF s \in {"O", "[H]O[H]"} THEN Water
    ELSE IF s = "[OH]" THEN Hydroxyl
    ELSE CarbonylSulfide

\* InchiToInchiKey(MolToInchi(MolFromSmiles(s))), the key shortened to the
\* first two letters, the end of the second block and the protonation flag
InchiKey(s) ==
    IF s \in {"O", "[H]O[H]"} THEN <<"X", "L", "-", "S", "A", "-", "N">>
    ELSE IF s = "[OH]" THEN <<"T", "U", "-", "S", "A", "-", "N">>
    ELSE <<"J", "J", "-", "S", "A", "-", "N">>

RECURSIVE StripLeft(_, _)
StripLeft(t, chars) ==
    IF t # <<>> /\ Head(t) \in chars THEN StripLeft(Tail(t), chars) ELSE t

RECURSIVE StripRight(_, _)
StripRight(t, chars) ==
    IF t # <<>> /\ t[Len(t)] \in chars
    THEN StripRight(SubSeq(t, 1, Len(t) - 1), chars)
    ELSE t

\* str.strip(chars): leading and trailing characters of the set are removed
Strip(t, chars) == StripRight(StripLeft(t, chars), chars)

\* label = InchiToInchiKey(...).strip("-N")
Label(s) == Strip(InchiKey(s), {"-", "N"})

RxnLabel == <<"r", "x", "n">>

SpeciesFile(s) == Label(s) \o <<".py">>
TSFile(rxn)    == rxn.label \o <<".py">>
DescFile(rxn)  == rxn.label \o <<".canth.py">>

NoFile == [none |-> TRUE]

(***************************************************************************)
(* The artifact writers.  Each returns [err, files, descriptor]: the error *)
(* raised ("" for none) and the scratch directory it leaves.               *)
(***************************************************************************)
Raised(e, fs, d) == [err |-> e, files |-> fs, descriptor |-> d]

\* get_atoms, then get_bonds (in any iteration order), then the write
WriteArtifact(struct, name, fs, d) ==
    IF get_atoms(struct).status # "ok"
    THEN {Raised(get_atoms(struct).status, fs, d)}
    ELSE {IF get_bonds(struct, bonds).status # "ok"
          THEN Raised(get_bonds(struct, bonds).status, fs, d)
          ELSE Raised("", fs \cup {name}, d) : bonds \in BondOrders(struct)}

write_cantherm_for_reacts_and_prods(s, fs, d) ==
    WriteArtifact(MolStruct(s), SpeciesFile(s), fs, d)

write_statmech_ts(rxn, fs, d) ==
    WriteArtifact(rxn.ts, TSFile(rxn), fs, d)

\* one of the two declaration loops of write_cantherm_ts
RECURSIVE DeclLoop(_, _, _, _)
DeclLoop(mols, i, labels, top) ==
    IF i > Len(mols) THEN [labels |-> labels, top |-> top]
    ELSE IF Label(mols[i]) \in Range(labels)
         THEN DeclLoop(mols, i + 1, labels, top)
         ELSE DeclLoop(mols, i + 1, Append(labels, Label(mols[i])),
                       Append(top, [smiles |-> mols[i],
                                    file   |-> Label(mols[i]) \o <<".py">>]))

\* a product loop that starts from an empty list of labels
SpeciesDeclsFresh(rxn) ==
    LET r == DeclLoop(rxn.reactant_mols, 1, <<>>, <<>>)
    IN  DeclLoop(rxn.product_mols, 1, <<>>, r.top).top

\* the species declarations: reactants, then products, one list of labels
SpeciesDecls(rxn) ==
    LET r == DeclLoop(rxn.reactant_mols, 1, <<>>, <<>>)
    IN  DeclLoop(rxn.product_mols, 1, r.labels, r.top).top

write_cantherm_ts(rxn, fs, d) ==
    IF Len(rxn.reactant_mols) < 2 \/ Len(rxn.product_mols) < 2
    THEN {Raised("IndexError", fs, d)}
    ELSE {Raised("", fs \cup {DescFile(rxn)},
                 [species         |-> SpeciesDecls(rxn),
                  transitionState |-> TSFile(rxn),
                  label           |-> rxn.label,
                  reactants       |-> <<rxn.reactant_mols[1], rxn.reactant_mols[2]>>,
                  products        |-> <<rxn.product_mols[1], rxn.product_mols[2]>>,
                  tunneling       |-> "Eckart"])}

(***************************************************************************)
(* write_files, one artifact per step                                      *)
(***************************************************************************)
SpeciesSteps(mols) == [i \in 1..Len(mols) |-> [kind |-> "species", mol |-> mols[i]]]

\* an order that writes the job descriptor before the artifacts it names
WriteOrderDescriptorFirst(rxn) ==
    <<[kind |-> "descriptor", mol |-> ""]>>
    \o SpeciesSteps(rxn.reactant_mols) \o SpeciesSteps(rxn.product_mols)
    \o <<[kind |-> "ts", mol |-> ""]>>

WriteOrder(rxn) ==
    SpeciesSteps(rxn.reactant_mols) \o SpeciesSteps(rxn.product_mols)
    \o <<[kind |-> "ts", mol |-> ""], [kind |-> "descriptor", mol |-> ""]>>

StepFile(rxn, st) ==
    IF st.kind = "species" THEN SpeciesFile(st.mol)
    ELSE IF st.kind = "ts" THEN TSFile(rxn)
    ELSE DescFile(rxn)

StepOutcomes(rxn, st, fs, d) ==
    IF st.kind = "species" THEN write_cantherm_for_reacts_and_prods(st.mol, fs, d)
    ELSE IF st.kind = "ts" THEN write_statmech_ts(rxn, fs, d)
    ELSE write_cantherm_ts(rxn, fs, d)

Idle == [op |-> "none", pc |-> "idle", k |-> 1, written |-> <<>>, err |-> ""]

\* the next artifact of the write_files pass; a finished or failed pass is
\* followed by a new one
WriteFilesStep ==
    LET k       == IF wf.op = "write_files" /\ wf.pc = "running" THEN wf.k ELSE 1
        written == IF k = 1 THEN <<>> ELSE wf.written
        order   == WriteOrder(reaction)
    IN  \E out \in StepOutcomes(reaction, order[k], files, descriptor) :
           /\ files' = out.files
           /\ descriptor' = out.descriptor
           /\ wf' = IF out.err # ""
                    THEN [op |-> "write_files", pc |-> "failed", k |-> k,
                          written |-> written, err |-> out.err]
                    ELSE [op |-> "write_files",
                          pc |-> IF k = Len(order) THEN "done" ELSE "running",
                          k |-> k + 1,
                          written |-> Append(written, StepFile(reaction, order[k])),
                          err |-> ""]
           /\ UNCHANGED <<reaction, classVars, runVars>>

\* write_cantherm_ts called on its own, outside a write_files pass
CallWriteCanthermTs ==
    /\ ~(wf.op = "write_files" /\ wf.pc = "running")
    /\ \E out \in write_cantherm_ts(reaction, files, descriptor) :
          /\ files' = out.files
          /\ descriptor' = out.descriptor
          /\ wf' = [op |-> "write_cantherm_ts",
                    pc |-> IF out.err # "" THEN "failed" ELSE "done",
                    k |-> 1, written |-> <<>>, err |-> out.err]
    /\ UNCHANGED <<reaction, classVars, runVars>>


(***************************************************************************)
(* The engine (self.cantherm_job) and run                                  *)
(***************************************************************************)
Unset == [unset |-> TRUE]

JobKinds == {"StatMechJob", "KineticsJob"}
JobLists == UNION {[1..n -> JobKinds] : n \in 0..MaxJobs}

\* what execute() can raise: nothing, the IOError of the plotting step, an
\* IOError of reading the job descriptor or a log file, any other exception;
\* a failure before the job descriptor is loaded leaves jobList as it was
EngineFailures == {"", "IOError:plot", "IOError:file", "Other"}

\* the reaction a kinetics job carries: the one the job descriptor declares,
\* its species looked up by label
EngineReaction(d) ==
    [origin |-> "engine", reactants |-> d.reactants, products |-> d.products]

SpeciesOf(rxn) == Range(rxn.reactants) \cup Range(rxn.products)

\* except IOError: every IOError is caught
Caught(exc) == exc \in {"IOError:plot", "IOError:file"}

RECURSIVE ScanLoop(_, _, _, _)
ScanLoop(jobs, i, job, kj) ==
    IF i > Len(jobs) THEN kj
    ELSE ScanLoop(jobs, i + 1, job,
                  IF jobs[i] = "KineticsJob" THEN job ELSE kj)

\* for job in jobList: if isinstance(job, KineticsJob): self.kinetics_job = job
Scan(jobs, job, kj) == ScanLoop(jobs, 1, job, kj)

FreshMolecules(kj) ==
    IF kj = Unset THEN EmptyDict ELSE [l \in SpeciesOf(kj.reaction) |-> <<>>]

Bound(rxn) == rxn.origin = "engine"

\* The calculator is followed up to the first set_reactants_and_products that
\* returns: from then on the reaction holds the engine's objects.
run ==
    /\ ~Bound(rmg_reaction)
    /\ \E exc \in EngineFailures :
       \E jobs \in IF exc \in {"", "IOError:plot"}
                   THEN JobLists ELSE JobLists \cup {jobList} :
          /\ jobList' = jobs
          /\ IF exc = "" \/ Caught(exc)
             THEN /\ kinetics_job' =
                        Scan(jobList', [reaction |-> EngineReaction(descriptor)],
                             kinetics_job)
                  /\ last' = [op |-> "run", exc |-> exc, err |-> ""]
             ELSE /\ kinetics_job' = kinetics_job
                  /\ last' = [op |-> "run", exc |-> exc, err |-> exc]
          /\ molecule' = FreshMolecules(kinetics_job')
    /\ UNCHANGED <<rmg_reaction, classVars, fileVars>>

(***************************************************************************)
(* set_reactants_and_products                                              *)
(***************************************************************************)
Ref(side, i) == [side |-> side, i |-> i]

\* for r in <side of the result>: if x.toSMILES() == r.label: r.molecule = [x]
RECURSIVE InnerLoop(_, _, _, _, _)
InnerLoop(smiles, ref, labels, j, m) ==
    IF j > Len(labels) THEN m
    ELSE InnerLoop(smiles, ref, labels, j + 1,
                   IF smiles = labels[j] THEN [m EXCEPT ![labels[j]] = <<ref>>] ELSE m)

\* for x in <side of self.reaction.rmg_reaction>: the loop above
RECURSIVE BindLoop(_, _, _, _, _)
BindLoop(origs, side, labels, i, m) ==
    IF i > Len(origs) THEN m
    ELSE BindLoop(origs, side, labels, i + 1,
                  InnerLoop(origs[i], Ref(side, i), labels, 1, m))

RECURSIVE BindLoopDown(_, _, _, _, _)
BindLoopDown(origs, side, labels, i, m) ==
    IF i < 1 THEN m
    ELSE BindLoopDown(origs, side, labels, i - 1,
                      InnerLoop(origs[i], Ref(side, i), labels, 1, m))

\* a binding in which the first matching structure, not the last, stays
BindSideFirstMatch(origs, side, labels, m) ==
    BindLoopDown(origs, side, labels, Len(origs), m)

BindSide(origs, side, labels, m) == BindLoop(origs, side, labels, 1, m)

set_reactants_and_products ==
    /\ ~Bound(rmg_reaction)
    /\ IF kinetics_job = Unset
       THEN /\ last' = [op |-> "set_reactants_and_products", exc |-> "",
                        err |-> "AttributeError"]
            /\ UNCHANGED <<rmg_reaction, molecule>>
       ELSE LET res == kinetics_job.reaction
                m1  == BindSide(rmg_reaction.reactants, "reactant", res.reactants,
                                molecule)
                m2  == BindSide(rmg_reaction.products, "product", res.products, m1)
            IN  /\ molecule' = m2
                /\ rmg_reaction' = res
                /\ last' = [op |-> "set_reactants_and_products", exc |-> "",
                            err |-> ""]
    /\ UNCHANGED <<jobList, kinetics_job, classVars, fileVars>>

(***************************************************************************)
(* Specifications                                                          *)
(***************************************************************************)
NoStructure == [atoms |-> <<>>, bonds |-> {}]
NoReaction  == [reactant_mols |-> <<>>, product_mols |-> <<>>,
                ts |-> NoStructure, label |-> RxnLabel]
NoRun       == [op |-> "none", exc |-> "", err |-> ""]

\* rxn.ts.rmg_ts: a hydrogen between the two oxygens it is passed between
TSStruct == [atoms |-> <<"O", "H", "O">>,
             bonds |-> {[atom1 |-> 1, atom2 |-> 2, order |-> 1],
                        [atom1 |-> 3, atom2 |-> 2, order |-> 1]}]

\* canonical strings toSMILES() gives the structures of rmg_reaction
OrigPool == {"O", "[OH]"}
\* molecule.smiles strings of a reaction handed to the engine
RunPool  == {"O", "[H]O[H]", "[OH]"}

ClassQuiet == mol = NoStructure /\ ret = NoCall
FileQuiet  == reaction = NoReaction /\ files = {} /\ descriptor = NoFile /\ wf = Idle
RunQuiet   == /\ rmg_reaction = [origin |-> "none", reactants |-> <<>>, products |-> <<>>]
              /\ jobList = <<>> /\ kinetics_job = Unset
              /\ molecule = EmptyDict /\ last = NoRun

\* the classifiers applied to a structure
InitClassify ==
    /\ \E n \in 1..(MaxBonds + 1) :
          \E a \in [1..n -> Elements], link \in [1..(n - 1) -> Links] :
             mol = Chain(a, link)
    /\ ret = NoCall
    /\ FileQuiet
    /\ RunQuiet

NextClassify == CallGetAtoms \/ CallGetBonds

SpecClassify == InitClassify /\ [][NextClassify]_vars

\* the writers on a calculator built for a reaction, empty scratch directory
InitFiles ==
    /\ \E nr \in 1..MaxMols, np \in 1..MaxMols :
          \E rs \in [1..nr -> SmilesPool], ps \in [1..np -> SmilesPool] :
             reaction = [reactant_mols |-> rs, product_mols |-> ps,
                         ts |-> TSStruct, label |-> RxnLabel]
    /\ files = {}
    /\ descriptor = NoFile
    /\ wf = Idle
    /\ ClassQuiet
    /\ RunQuiet

NextFiles == WriteFilesStep \/ CallWriteCanthermTs

SpecFiles == InitFiles /\ [][NextFiles]_vars

\* run and set_reactants_and_products once the job descriptor is written
InitRun ==
    /\ \E rs \in [1..2 -> RunPool], ps \in [1..2 -> RunPool] :
          /\ reaction = [reactant_mols |-> rs, product_mols |-> ps,
                         ts |-> TSStruct, label |-> RxnLabel]
          /\ \E out \in write_cantherm_ts(reaction, {}, NoFile) :
                files = out.files /\ descriptor = out.descriptor
    /\ wf = [op |-> "write_cantherm_ts", pc |-> "done", k |-> 1,
             written |-> <<>>, err |-> ""]
    /\ \E rs \in [1..2 -> OrigPool], ps \in [1..2 -> OrigPool] :
          rmg_reaction = [origin |-> "original", reactants |-> rs, products |-> ps]
    /\ jobList = <<>>
    /\ kinetics_job = Unset
    /\ molecule = EmptyDict
    /\ last = NoRun
    /\ ClassQuiet

NextRun == run \/ set_reactants_and_products

SpecRun == InitRun /\ [][NextRun]_vars


(***************************************************************************)
(* Properties                                                              *)
(***************************************************************************)
RECURSIVE SumOver(_, _)
SumOver(d, keys) ==
    IF keys = {} THEN 0
    ELSE LET k == CHOOSE x \in keys : TRUE
         IN  d[k] + SumOver(d, keys \ {k})

Total(d) == SumOver(d, DOMAIN d)

Count(d, k) == IF k \in DOMAIN d THEN d[k] ELSE 0

AtomsOf(m, e) == Cardinality({i \in DOMAIN m.atoms : m.atoms[i] = e})

\* the elements get_atoms has a branch for
SupportedElements == {"C", "H", "O"}

\* the fixed table: the label the branch of the bond's own order gives
TableLabel(b, atoms) ==
    LET s1 == atoms[b.atom1]
        s2 == atoms[b.atom2]
    IN  IF b.order = 1 THEN SingleLabel(s1, s2, Unbound)
        ELSE IF b.order = 2 THEN DoubleLabel(s1, s2, Unbound)
        ELSE TripleLabel(s1, s2, Unbound)

BondsLabelled(m, label) ==
    Cardinality({b \in m.bonds : TableLabel(b, m.atoms) = label})

GotBonds == ret.op = "get_bonds" /\ ret.status = "ok"
GotAtoms == ret.op = "get_atoms" /\ ret.status = "ok"

\* C1: whenever get_bonds returns a mapping, its counts add up to the number
\* of distinct bonds of the structure, each bond counted once although both
\* of its endpoint atoms list it.
C1_CountsSumToDistinctBonds ==
    GotBonds => Total(ret.dict) = Cardinality(mol.bonds)

C1_Witness ==
    /\ GotBonds
    /\ Cardinality(mol.bonds) = 2
    /\ Len(BondList(mol, 1)) = 4
    /\ Total(ret.dict) = 2

\* C2: the mapping get_atoms returns has, under each element key, the number
\* of atoms of that element, its total is the number of atoms of a supported
\* element, and no atom of another element is counted under a supported one.
C2_AtomCountsPerElement ==
    GotAtoms =>
        /\ \A e \in Elements :
              Count(ret.dict, e) = IF e \in SupportedElements THEN AtomsOf(mol, e) ELSE 0
        /\ Total(ret.dict) =
              Cardinality({i \in DOMAIN mol.atoms : mol.atoms[i] \in SupportedElements})

\* C3: when every bond of the structure is in the fixed table, get_bonds
\* counts each bond under the label of its own order and element pair: single
\* under '-', double under '=', triple under '#'.
C3_EachOrderOwnLabel ==
    (/\ ret.op = "get_bonds"
     /\ \A b \in mol.bonds : TableLabel(b, mol.atoms) # Unbound)
    => /\ ret.status = "ok"
       /\ \A b \in mol.bonds :
             Count(ret.dict, TableLabel(b, mol.atoms))
                = BondsLabelled(mol, TableLabel(b, mol.atoms))
       /\ Total(ret.dict) = Cardinality(mol.bonds)

\* C4: a structure with a bond outside the fixed table makes get_bonds fail
\* with an error, whatever the order the bonds are processed in; it never
\* returns a mapping in which that bond is counted under a label of the table.
C4_UnclassifiedBondIsError ==
    (/\ ret.op = "get_bonds"
     /\ \E b \in mol.bonds : TableLabel(b, mol.atoms) = Unbound)
    => ret.status # "ok"

AllMols(rxn) == rxn.reactant_mols \o rxn.product_mols

\* positions of the molecules whose identifier no earlier molecule has
FirstOccurrences(all) ==
    {i \in DOMAIN all : \A j \in 1..(i - 1) : Label(all[j]) # Label(all[i])}

\* C5: the job descriptor declares one species per distinct identifier of the
\* reactants followed by the products: the first molecule with the identifier,
\* in order of first occurrence.
C5_OneDeclarationPerIdentifier ==
    descriptor # NoFile =>
        LET all   == AllMols(reaction)
            first == FirstOccurrences(all)
        IN  /\ Len(descriptor.species) = Cardinality(first)
            /\ \A i \in first :
                  descriptor.species[Cardinality({j \in first : j <= i})]
                     = [smiles |-> all[i], file |-> SpeciesFile(all[i])]

C5_Witness ==
    /\ descriptor # NoFile
    /\ Len(descriptor.species) = 2
    /\ \E i \in DOMAIN reaction.reactant_mols, j \in DOMAIN reaction.product_mols :
          /\ reaction.reactant_mols[i] # reaction.product_mols[j]
          /\ Label(reaction.reactant_mols[i]) = Label(reaction.product_mols[j])

TwoAndTwo(rxn) == Len(rxn.reactant_mols) = 2 /\ Len(rxn.product_mols) = 2

\* C6: for a reaction that has not exactly two reactants and two products,
\* write_files and write_cantherm_ts fail before any file is written: the
\* scratch directory stays empty and no call ends or goes on normally.
C6_CardinalityRejectedBeforeWriting ==
    ~TwoAndTwo(reaction) =>
        /\ files = {}
        /\ descriptor = NoFile
        /\ wf.pc \in {"idle", "failed"}

NoKineticsJob == \A i \in DOMAIN jobList : jobList[i] # "KineticsJob"

\* C7: a run whose engine job list has no kinetics job ends in an error.
C7_MissingKineticsIsFatal ==
    (last.op = "run" /\ NoKineticsJob) => last.err # ""

\* C8: run lets the engine's failure pass as non-fatal exactly when it is the
\* plotting failure; every other failure of the engine propagates out of run.
C8_OnlyPlotFailureCaught ==
    (last.op = "run" /\ last.exc # "") =>
        (last.err = "" <=> last.exc = "IOError:plot")

IsPrefix(s, t) == Len(s) <= Len(t) /\ \A i \in DOMAIN s : s[i] = t[i]

\* the files of a write_files pass in the order of the artifacts
ExpectedFiles(rxn) ==
    [i \in 1..Len(AllMols(rxn)) |-> SpeciesFile(AllMols(rxn)[i])]
    \o <<TSFile(rxn), DescFile(rxn)>>

Referenced(d) == {d.species[i].file : i \in DOMAIN d.species} \cup {d.transitionState}

\* C9: a write_files pass writes the species artifacts of the reactants, then
\* of the products, then the transition-state artifact, then the job
\* descriptor; once the pass has written the descriptor every file it names
\* exists and was written earlier in the pass; a failed pass wrote none.
C9_DescriptorAfterItsFiles ==
    wf.op = "write_files" =>
        /\ IsPrefix(wf.written, ExpectedFiles(reaction))
        /\ \A k \in DOMAIN wf.written :
              wf.written[k] = DescFile(reaction) =>
                 /\ descriptor # NoFile
                 /\ \A f \in Referenced(descriptor) :
                       /\ f \in files
                       /\ \E j \in 1..(k - 1) : wf.written[j] = f
        /\ wf.pc = "failed" => DescFile(reaction) \notin Range(wf.written)

C9_Witness ==
    /\ wf.op = "write_files"
    /\ wf.pc = "done"
    /\ Len(descriptor.species) = 2
    /\ Referenced(descriptor) \subseteq files

\* the step in which set_reactants_and_products binds the engine's reaction
ReconcileStep == ~Bound(rmg_reaction) /\ Bound(rmg_reaction')

Matches(origs, l) == {i \in DOMAIN origs : origs[i] = l}

Last(S) == CHOOSE i \in S : \A j \in S : j <= i

\* C10 as stated: set_reactants_and_products makes the kinetics result's
\* reaction the reaction's reaction object, binds every original reactant
\* (product) to the result reactant (product) species with its exact
\* canonical string, leaves every other species as it was, raises nothing.
C10_EveryMatchBound ==
    [][ReconcileStep =>
          LET res == kinetics_job.reaction
          IN  /\ rmg_reaction' = res
              /\ last'.err = ""
              /\ \A i \in DOMAIN rmg_reaction.reactants, j \in DOMAIN res.reactants :
                    rmg_reaction.reactants[i] = res.reactants[j]
                       => molecule'[res.reactants[j]] = <<Ref("reactant", i)>>
              /\ \A i \in DOMAIN rmg_reaction.products, j \in DOMAIN res.products :
                    rmg_reaction.products[i] = res.products[j]
                       => molecule'[res.products[j]] = <<Ref("product", i)>>
              /\ \A l \in SpeciesOf(res) :
                    (/\ l \notin Range(rmg_reaction.reactants)
                     /\ l \notin Range(rmg_reaction.products))
                       => molecule'[l] = molecule[l]]_vars

\* C10, amended: the species of a matched label holds exactly one original
\* structure with that canonical string, the last one assigned: the last
\* matching original product when the species is a result product with a
\* match, otherwise the last matching original reactant when it is a result
\* reactant with a match; any other species is as it was.
C10_LastMatchBound ==
    [][ReconcileStep =>
          LET res == kinetics_job.reaction
          IN  /\ rmg_reaction' = res
              /\ last'.err = ""
              /\ \A l \in SpeciesOf(res) :
                    LET pm == IF l \in Range(res.products)
                              THEN Matches(rmg_reaction.products, l) ELSE {}
                        rm == IF l \in Range(res.reactants)
                              THEN Matches(rmg_reaction.reactants, l) ELSE {}
                    IN  molecule'[l] =
                           IF pm # {} THEN <<Ref("product", Last(pm))>>
                           ELSE IF rm # {} THEN <<Ref("reactant", Last(rm))>>
                           ELSE molecule[l]]_vars

C10_Witness ==
    /\ Bound(rmg_reaction)
    /\ last.op = "set_reactants_and_products"
    /\ last.err = ""
    /\ \E l \in DOMAIN molecule : molecule[l] = <<Ref("reactant", 2)>>
    /\ \E l \in DOMAIN molecule : molecule[l] = <<>>

====
